---- MODULE Spec2Model ----
(***************************************************************************)
(* A model of Happysearch (src/Happysearch.py): the search engine object   *)
(* (_get_json, _wikipedia_results, search) and the HTTP handler (do_GET,   *)
(* _serve_file, _send_json) running one worker thread per request.         *)
(*                                                                         *)
(* Text is a sequence of one-character strings, so that str.replace,       *)
(* str.strip, quote and unquote are computed character by character.  A    *)
(* fixed literal that no operation looks into (a URL prefix, a fixed       *)
(* sentence) is kept as one element of the sequence.                       *)
(***************************************************************************)
EXTENDS Integers, Sequences, FiniteSets, TLC

VARIABLES engine, fs, clock, pc, req, query, started, upstreamCalls,
          upstream, resp, call, snip

vars == <<engine, fs, clock, pc, req, query, started, upstreamCalls,
          upstream, resp, call, snip>>

serverVars == <<engine, fs, clock, pc, req, query, started, upstreamCalls,
                upstream, resp>>

(***************************************************************************)
(* Bounds of the model.                                                    *)
(***************************************************************************)
NumWorkers == 2
MaxClock == 2
MaxRows == 2
MaxPieces == 3
TicksPerSecond == 2000

(***************************************************************************)
(* Text.                                                                   *)
(***************************************************************************)
OPEN_MARK == <<"<", "s", "p", "a", "n", " ", "c", "l", "a", "s", "s", "=", "\"", "s", "e", "a", "r", "c", "h", "m", "a", "t", "c", "h", "\"", ">">>

CLOSE_MARK == <<"<", "/", "s", "p", "a", "n", ">">>

\* A code point json.loads can produce ("\ud800") and UTF-8 cannot encode.
Surrogate == "\\ud800"

Whitespace == {" ", "\t", "\n"}

Drop(s, n) == SubSeq(s, n + 1, Len(s))

StartsWith(s, p) == Len(p) <= Len(s) /\ SubSeq(s, 1, Len(p)) = p

Contains(s, p) == \E i \in 1..(Len(s) - Len(p) + 1) : SubSeq(s, i, i + Len(p) - 1) = p

\* str.replace(old, new) for a non-empty old: every occurrence found in one
\* scan from the left, the scan resuming after the occurrence it replaced.
RECURSIVE StrReplace(_, _, _)
StrReplace(s, old, new) ==
    IF Len(s) < Len(old) THEN s
    ELSE IF StartsWith(s, old) THEN new \o StrReplace(Drop(s, Len(old)), old, new)
    ELSE <<Head(s)>> \o StrReplace(Tail(s), old, new)

RECURSIVE LStrip(_)
LStrip(s) == IF s # <<>> /\ Head(s) \in Whitespace THEN LStrip(Tail(s)) ELSE s

RECURSIVE RStrip(_)
RStrip(s) ==
    IF s # <<>> /\ s[Len(s)] \in Whitespace THEN RStrip(SubSeq(s, 1, Len(s) - 1)) ELSE s

StrStrip(s) == RStrip(LStrip(s))

\* urllib.parse: the characters quote never encodes, besides its safe="/".
AlwaysSafe ==
    {"a", "b", "c", "d", "e", "f", "g", "h", "i", "j", "k", "l", "m", "n", "o", "p", "q",
     "r", "s", "t", "u", "v", "w", "x", "y", "z", "A", "B", "C", "D", "E", "F", "G", "H",
     "I", "J", "K", "L", "M", "N", "O", "P", "Q", "R", "S", "T", "U", "V", "W", "X", "Y",
     "Z", "0", "1", "2", "3", "4", "5", "6", "7", "8", "9", "_", ".", "-", "~"}

\* The UTF-8 byte of the characters the model's texts use, in the upper-case
\* hex quote writes (unquote reads either case; the requests of the model
\* write upper case).
PercentCode ==
    [c \in {" ", "\t", "\n", "+", "%", "<", ">", "\"", "=", "&", ":", "q"} |->
        CASE c = " " -> <<"%", "2", "0">>
          [] c = "q" -> <<"%", "7", "1">>
          [] c = "\t" -> <<"%", "0", "9">>
          [] c = "\n" -> <<"%", "0", "A">>
          [] c = "+" -> <<"%", "2", "B">>
          [] c = "%" -> <<"%", "2", "5">>
          [] c = "<" -> <<"%", "3", "C">>
          [] c = ">" -> <<"%", "3", "E">>
          [] c = "\"" -> <<"%", "2", "2">>
          [] c = "=" -> <<"%", "3", "D">>
          [] c = "&" -> <<"%", "2", "6">>
          [] c = ":" -> <<"%", "3", "A">>]

\* quote raises UnicodeEncodeError on a text UTF-8 cannot encode.
QuoteRaises(s) == \E i \in 1..Len(s) : s[i] = Surrogate

RECURSIVE Quote(_)
Quote(s) ==
    IF s = <<>> THEN <<>>
    ELSE (IF Head(s) \in AlwaysSafe \cup {"/"} THEN <<Head(s)>> ELSE PercentCode[Head(s)])
         \o Quote(Tail(s))

\* unquote: a "%" followed by two hex digits is the byte they name; any
\* other "%" stays as it is.
RECURSIVE Unquote(_)
Unquote(s) ==
    IF s = <<>> THEN <<>>
    ELSE IF Len(s) >= 3 /\ \E c \in DOMAIN PercentCode : PercentCode[c] = SubSeq(s, 1, 3)
         THEN <<CHOOSE c \in DOMAIN PercentCode : PercentCode[c] = SubSeq(s, 1, 3)>>
              \o Unquote(Drop(s, 3))
         ELSE <<Head(s)>> \o Unquote(Tail(s))

\* parse_qs decodes a name or value: "+" is a space, then unquote.
UnquotePlus(s) == Unquote(StrReplace(s, <<"+">>, <<" ">>))

(***************************************************************************)
(* JSON values as json.loads returns them, tagged by their Python type.    *)
(***************************************************************************)
JNull == [k |-> "null"]

JNum(n) == [k |-> "num", n |-> n]

JStr(s) == [k |-> "str", s |-> s]

JList(items) == [k |-> "list", items |-> items]

JObj(fields) == [k |-> "obj", fields |-> fields]

EmptyFields == [key \in {} |-> JNull]

\* The result of a Python call: a value, or an exception on its way up.
Return(v) == [raised |-> FALSE, value |-> v]

Raise == [raised |-> TRUE, value |-> <<>>]

\* obj.get(key, default): only a dict has get (AttributeError otherwise).
PyDictGet(obj, key, default) ==
    IF obj.k # "obj" THEN Raise
    ELSE IF key \in DOMAIN obj.fields THEN Return(obj.fields[key])
    ELSE Return(default)

RECURSIVE KeysInOrder(_)
KeysInOrder(keys) ==
    IF keys = {} THEN <<>>
    ELSE LET first == CHOOSE key \in keys : TRUE
         IN <<JStr(<<first>>)>> \o KeysInOrder(keys \ {first})

\* What a for loop iterates over: the items of a list, the characters of a
\* str, the keys of a dict; None and numbers are not iterable (TypeError).
PyIter(v) ==
    CASE v.k = "list" -> Return(v.items)
      [] v.k = "str" -> Return([i \in 1..Len(v.s) |-> JStr(<<v.s[i]>>)])
      [] v.k = "obj" -> Return(KeysInOrder(DOMAIN v.fields))
      [] OTHER -> Raise

(***************************************************************************)
(* class Happysearch                                                       *)
(***************************************************************************)
Untitled == <<"U", "n", "t", "i", "t", "l", "e", "d">>

WikiArticleBase == "https://en.wikipedia.org/wiki/"

WikiSearchBase == "https://en.wikipedia.org/w/index.php?search="

DuckDuckGoBase == "https://duckduckgo.com/?q="

\* What urlopen and json.loads can raise in _get_json.
GetJsonErrors == {"URLError", "HTTPError", "timeout", "JSONDecodeError", "UnicodeDecodeError"}

\* _get_json: the upstream's answer is the environment's; outcome is either
\* an exception of urlopen/read/decode/json.loads or the parsed JSON value.
GetJson(outcome) ==
    IF outcome.kind = "raise" THEN Raise ELSE Return(outcome.payload)

\* A faulty variant: the closing literal is left in.
NormalizeSnippetOpenOnly(s) == StrReplace(s, OPEN_MARK, <<>>)

\* snippet.replace("<span class=\"searchmatch\">", "").replace("</span>", "")
NormalizeSnippet(s) == StrReplace(StrReplace(s, OPEN_MARK, <<>>), CLOSE_MARK, <<>>)

\* The body of the for loop of _wikipedia_results, for one row.
ConvertRow(row) ==
    LET title == PyDictGet(row, "title", JStr(Untitled))
        snippet == PyDictGet(row, "snippet", JStr(<<>>))
    IN  IF title.raised \/ snippet.raised THEN Raise
        ELSE IF snippet.value.k # "str" THEN Raise
        ELSE IF title.value.k # "str" THEN Raise
        ELSE LET page == StrReplace(title.value.s, <<" ">>, <<"_">>)
             IN  IF QuoteRaises(page) THEN Raise
                 ELSE Return([title |-> title.value.s,
                              snippet |-> NormalizeSnippet(snippet.value.s),
                              url |-> <<WikiArticleBase>> \o Quote(page)])

\* A faulty variant: the newest item goes first.
PrependItem(items, item) == <<item>> \o items

\* items.append(SearchResult(...))
AppendItem(items, item) == Append(items, item)

\* A faulty variant: a row that cannot be converted is skipped.
RECURSIVE WikiLoopSkipBadRows(_, _)
WikiLoopSkipBadRows(rows, items) ==
    IF rows = <<>> THEN Return(items)
    ELSE LET r == ConvertRow(Head(rows))
         IN  IF r.raised THEN WikiLoopSkipBadRows(Tail(rows), items)
             ELSE WikiLoopSkipBadRows(Tail(rows), AppendItem(items, r.value))

\* The for loop of _wikipedia_results: an exception in any row leaves the
\* function, and the items collected so far are lost with its frame.
RECURSIVE WikiLoop(_, _)
WikiLoop(rows, items) ==
    IF rows = <<>> THEN Return(items)
    ELSE LET r == ConvertRow(Head(rows))
         IN  IF r.raised THEN Raise
             ELSE WikiLoop(Tail(rows), AppendItem(items, r.value))

\* _wikipedia_results(query): urlencode, _get_json, then the loop over
\* payload.get("query", {}).get("search", []).
WikipediaResults(q, outcome) ==
    IF QuoteRaises(q) THEN Raise
    ELSE LET payload == GetJson(outcome)
         IN  IF payload.raised THEN Raise
             ELSE LET qry == PyDictGet(payload.value, "query", JObj(EmptyFields))
                  IN  IF qry.raised THEN Raise
                      ELSE LET srch == PyDictGet(qry.value, "search", JList(<<>>))
                           IN  IF srch.raised THEN Raise
                               ELSE LET rows == PyIter(srch.value)
                                    IN  IF rows.raised THEN Raise
                                        ELSE WikiLoop(rows.value, <<>>)

\* A faulty variant: the two links in the other order.
FallbackResultsSwapped(q) ==
    << [title |-> <<"Search DuckDuckGo for: ">> \o q,
        snippet |-> <<"Open web results directly in DuckDuckGo.">>,
        url |-> <<DuckDuckGoBase>> \o Quote(q)],
       [title |-> <<"Search Wikipedia for: ">> \o q,
        snippet |-> <<"Live search source unavailable here, so use this direct Wikipedia query link.">>,
        url |-> <<WikiSearchBase>> \o Quote(q)] >>

\* The except branch of search: the two static links.
FallbackResults(q) ==
    << [title |-> <<"Search Wikipedia for: ">> \o q,
        snippet |-> <<"Live search source unavailable here, so use this direct Wikipedia query link.">>,
        url |-> <<WikiSearchBase>> \o Quote(q)],
       [title |-> <<"Search DuckDuckGo for: ">> \o q,
        snippet |-> <<"Open web results directly in DuckDuckGo.">>,
        url |-> <<DuckDuckGoBase>> \o Quote(q)] >>

\* A faulty variant: the difference taken the wrong way round.
ElapsedMsReversed(startedAt, now) == ((startedAt - now) * 1000) \div TicksPerSecond

\* int((time.perf_counter() - started) * 1000), the counter read in ticks.
ElapsedMs(startedAt, now) == ((now - startedAt) * 1000) \div TicksPerSecond

\* A faulty variant: only the exceptions of _get_json are caught.
SearchNarrowExcept(q, outcome, startedAt, now) ==
    LET live == WikipediaResults(q, outcome)
    IN  IF live.raised /\ (outcome.kind # "raise" \/ QuoteRaises(q)) THEN Raise
        ELSE Return([query |-> q,
                     engine |-> "Happysearch",
                     elapsed_ms |-> ElapsedMs(startedAt, now),
                     results |-> IF live.raised THEN FallbackResults(q) ELSE live.value])

\* search(query): except Exception catches whatever _wikipedia_results
\* raises; quote(query) in the except branch is outside any try.
Search(q, outcome, startedAt, now) ==
    LET live == WikipediaResults(q, outcome)
    IN  IF live.raised /\ QuoteRaises(q) THEN Raise
        ELSE Return([query |-> q,
                     engine |-> "Happysearch",
                     elapsed_ms |-> ElapsedMs(startedAt, now),
                     results |-> IF live.raised THEN FallbackResults(q) ELSE live.value])

(***************************************************************************)
(* class HappysearchHandler                                                *)
(***************************************************************************)
DefaultTimeoutSeconds == 6

\* WEB_DIR = Path(__file__).resolve().parent, as its path segments.
WEB_DIR == <<"srv", "happysearch">>

IndexPaths == {<<>>, <<"index.html">>}

ApiSearchPath == <<"api", "search">>

ErrorBody == [error |-> <<"Query parameter 'q' is required.">>]

\* _send_json(payload, status): body is json.dumps(payload), kept as the
\* payload it serialises.
SendJson(payload, status) ==
    [status |-> status, ctype |-> "application/json; charset=utf-8", body |-> payload]

\* BaseHTTPRequestHandler.send_error(code, message)
SendError(status, message) ==
    [status |-> status, ctype |-> "text/html;charset=utf-8", body |-> message]

\* The handler left do_GET by an exception: no response is written.
NoResponse == [status |-> 0, ctype |-> "", body |-> ""]

RECURSIVE NormalizeOnto(_, _)
NormalizeOnto(stack, rest) ==
    IF rest = <<>> THEN stack
    ELSE IF Head(rest) = ".."
         THEN NormalizeOnto(IF stack = <<>> THEN <<>> ELSE SubSeq(stack, 1, Len(stack) - 1),
                            Tail(rest))
         ELSE NormalizeOnto(Append(stack, Head(rest)), Tail(rest))

\* Path.resolve(): ".." collapsed and a symbolic link replaced by its target
\* (in the file systems of the model only a leaf is a link, and no link
\* points to a link).
RECURSIVE Resolve(_, _)
Resolve(path, fsys) ==
    LET p == NormalizeOnto(<<>>, path)
    IN  IF p \in DOMAIN fsys /\ fsys[p].kind = "link" THEN Resolve(fsys[p].target, fsys)
        ELSE p

\* WEB_DIR in safe_path.parents or safe_path == WEB_DIR
InsideWebDir(p) ==
    \/ \E n \in 0..(Len(p) - 1) : SubSeq(p, 1, n) = WEB_DIR
    \/ p = WEB_DIR

\* Path.suffix of the names the model's file systems hold.
Suffix(p) ==
    CASE p[Len(p)] \in {"index.html", "home.html"} -> ".html"
      [] p[Len(p)] = "style.css" -> ".css"
      [] p[Len(p)] = "app.js" -> ".js"
      [] OTHER -> ""

ContentType(suffix) ==
    CASE suffix = ".html" -> "text/html; charset=utf-8"
      [] suffix = ".css" -> "text/css; charset=utf-8"
      [] suffix = ".js" -> "application/javascript; charset=utf-8"
      [] OTHER -> "text/plain; charset=utf-8"

\* A faulty variant: no containment test.
ServeFileUnchecked(relative_path, fsys) ==
    LET safe_path == Resolve(WEB_DIR \o relative_path, fsys)
    IN  IF safe_path \notin DOMAIN fsys \/ fsys[safe_path].kind = "dir"
        THEN SendError(404, "Not Found")
        ELSE [status |-> 200, ctype |-> ContentType(Suffix(safe_path)),
              body |-> fsys[safe_path].data]

\* _serve_file(relative_path)
ServeFile(relative_path, fsys) ==
    LET safe_path == Resolve(WEB_DIR \o relative_path, fsys)
    IN  IF ~InsideWebDir(safe_path) THEN SendError(403, "Forbidden")
        ELSE IF safe_path \notin DOMAIN fsys \/ fsys[safe_path].kind = "dir"
        THEN SendError(404, "Not Found")
        ELSE [status |-> 200, ctype |-> ContentType(Suffix(safe_path)),
              body |-> fsys[safe_path].data]

\* parse_qs(qs).get(name, []): the decoded values of the fields called
\* name, in order; a field whose value is empty is dropped.
RECURSIVE QsValues(_, _)
QsValues(qs, name) ==
    IF qs = <<>> THEN <<>>
    ELSE (IF Head(qs).value # <<>> /\ UnquotePlus(Head(qs).name) = name
          THEN <<UnquotePlus(Head(qs).value)>> ELSE <<>>)
         \o QsValues(Tail(qs), name)

\* raw_query = parse_qs(parsed.query).get("q", [""])[0]
RawQuery(request) ==
    LET values == QsValues(request.qs, <<"q">>)
    IN  IF values = <<>> THEN <<>> ELSE values[1]

\* A faulty variant: the query is not stripped.
QueryOfUnstripped(request) == RawQuery(request)

\* query = raw_query.strip()
QueryOf(request) == StrStrip(RawQuery(request))

(***************************************************************************)
(* The inputs the model draws from.                                        *)
(***************************************************************************)
SeqsUpTo(S, n) == UNION {[1..m -> S] : m \in 0..n}

Workers == 1..NumWorkers

Field(name, value) == [name |-> name, value |-> value]

\* The query strings of the requests, as sequences of name=value fields.
QueryStrings ==
    { <<>>,
      <<Field(<<"q">>, <<>>)>>,
      <<Field(<<"q">>, <<"+">>)>>,
      <<Field(<<"%", "7", "1">>, <<"+", "c", "%", "2", "B", "%", "2", "B", "%", "0", "9">>)>>,
      <<Field(<<"x">>, <<"r", "u", "s", "t">>), Field(<<"q">>, <<>>),
        Field(<<"q">>, <<"a", "+", "b">>), Field(<<"q">>, <<"z">>)>> }

Requests ==
    [path : IndexPaths, qs : {<<>>}]
    \cup [path : {ApiSearchPath}, qs : QueryStrings]
    \cup [path : {<<"..", "secret.txt">>, <<"style.css">>}, qs : {<<>>}]

\* The queries do_GET can hand to search.
Queries == {QueryOf(r) : r \in [path : {ApiSearchPath}, qs : QueryStrings]} \ {<<>>}

Absent == [k |-> "absent"]

RowObject(title, snippet) ==
    JObj([key \in (IF title = Absent THEN {} ELSE {"title"})
                  \cup (IF snippet = Absent THEN {} ELSE {"snippet"}) |->
            IF key = "title" THEN title ELSE snippet])

RowTitles ==
    {Absent, JStr(<<"C", "+", "+">>), JStr(<<"a", " ", "b">>), JNull, JStr(<<Surrogate>>)}

RowSnippets ==
    {Absent, JStr(OPEN_MARK \o <<"x">> \o CLOSE_MARK \o <<" ", "y">>), JNum(1)}

Rows == {RowObject(t, sn) : t \in RowTitles, sn \in RowSnippets} \cup {JStr(<<"r">>), JNull}

SearchPayload(search) == JObj("batchcomplete" :> JStr(<<>>) @@ "query" :> JObj("search" :> search))

\* Bodies json.loads accepts whose shape is not the API's.
OddPayloads ==
    { JNull, JList(<<>>), JStr(<<"o", "k">>), JNum(1),
      JObj(EmptyFields),
      JObj("query" :> JNull),
      JObj("query" :> JList(<<>>)),
      JObj("query" :> JObj(EmptyFields)),
      SearchPayload(JNull),
      SearchPayload(JNum(3)),
      SearchPayload(JStr(<<>>)),
      SearchPayload(JStr(<<"a", "b">>)),
      SearchPayload(JObj(EmptyFields)),
      SearchPayload(JObj("title" :> JStr(<<"a">>))) }

Failures == [kind : {"raise"}, error : GetJsonErrors]

Json(payload) == [kind |-> "json", payload |-> payload]

\* Every outcome of the upstream call the pure checks of search draw from.
Outcomes ==
    Failures
    \cup {Json(pl) : pl \in OddPayloads}
    \cup {Json(SearchPayload(JList(rows))) : rows \in SeqsUpTo(Rows, MaxRows)}

GoodRowA == RowObject(JStr(<<"C", "+", "+">>), JStr(<<"x">>))

GoodRowB == RowObject(JStr(<<"a", " ", "b">>), Absent)

\* The outcomes the server draws from: one of each kind.
ServerOutcomes ==
    { [kind |-> "raise", error |-> "timeout"],
      Json(JList(<<>>)),
      Json(SearchPayload(JList(<<GoodRowA, GoodRowB>>))) }

File(data) == [kind |-> "file", target |-> <<>>, data |-> data]

Dir == [kind |-> "dir", target |-> <<>>, data |-> ""]

Link(target) == [kind |-> "link", target |-> target, data |-> ""]

BaseFs == (WEB_DIR :> Dir) @@ (<<"etc", "passwd">> :> File("root:x:0:0"))
          @@ ((WEB_DIR \o <<"home.html">>) :> File("<html>home</html>"))

IndexFile == WEB_DIR \o <<"index.html">>

\* What index.html can be on the disk of the server.
FileSystems ==
    { BaseFs,
      (IndexFile :> File("<html>index</html>")) @@ BaseFs,
      (IndexFile :> Dir) @@ BaseFs,
      (IndexFile :> Link(<<"etc", "passwd">>)) @@ BaseFs,
      (IndexFile :> Link(WEB_DIR \o <<"home.html">>)) @@ BaseFs }

\* The marker literals, whole and cut in two, and plain text.
SnippetPieces ==
    { OPEN_MARK, CLOSE_MARK,
      SubSeq(OPEN_MARK, 1, 19), SubSeq(OPEN_MARK, 20, Len(OPEN_MARK)),
      SubSeq(CLOSE_MARK, 1, 4), SubSeq(CLOSE_MARK, 5, Len(CLOSE_MARK)),
      <<"x">>, <<" ">> }

RECURSIVE Flatten(_)
Flatten(pieces) == IF pieces = <<>> THEN <<>> ELSE Head(pieces) \o Flatten(Tail(pieces))

RawSnippets == {Flatten(ps) : ps \in SeqsUpTo(SnippetPieces, MaxPieces)}

(***************************************************************************)
(* The server: ThreadingHTTPServer runs do_GET of each request on a thread *)
(* of its own; all threads use the one Happysearch of the handler class.   *)
(***************************************************************************)
NoRequest == [path |-> <<"-">>, qs |-> <<>>]

NoOutcome == [kind |-> "none"]

CallIdle == [pc |-> "idle"]

SnipIdle == [pc |-> "idle"]

ServerInit ==
    /\ engine = [timeout_seconds |-> DefaultTimeoutSeconds]
    /\ fs \in FileSystems
    /\ clock = 0
    /\ pc = [w \in Workers |-> "idle"]
    /\ req = [w \in Workers |-> NoRequest]
    /\ query = [w \in Workers |-> <<>>]
    /\ started = [w \in Workers |-> 0]
    /\ upstreamCalls = [w \in Workers |-> 0]
    /\ upstream = [w \in Workers |-> NoOutcome]
    /\ resp = [w \in Workers |-> NoResponse]

Init == ServerInit /\ call = CallIdle /\ snip = SnipIdle

\* time.perf_counter() advances.
Tick ==
    /\ clock < MaxClock
    /\ clock' = clock + 1
    /\ UNCHANGED <<engine, fs, pc, req, query, started, upstreamCalls, upstream, resp, call, snip>>

\* do_GET, up to its response or, for a search, up to the urlopen of
\* _get_json, where the thread blocks.
DoGET(w) ==
    /\ pc[w] = "idle"
    /\ \E request \in Requests :
         /\ req' = [req EXCEPT ![w] = request]
         /\ IF request.path \in IndexPaths
            THEN /\ resp' = [resp EXCEPT ![w] = ServeFile(<<"index.html">>, fs)]
                 /\ pc' = [pc EXCEPT ![w] = "done"]
                 /\ UNCHANGED <<query, started, upstreamCalls>>
            ELSE IF request.path = ApiSearchPath
            THEN LET q == QueryOf(request)
                 IN  IF q = <<>>
                     THEN /\ resp' = [resp EXCEPT ![w] = SendJson(ErrorBody, 400)]
                          /\ pc' = [pc EXCEPT ![w] = "done"]
                          /\ UNCHANGED <<query, started, upstreamCalls>>
                     ELSE /\ query' = [query EXCEPT ![w] = q]
                          /\ started' = [started EXCEPT ![w] = clock]
                          /\ upstreamCalls' = [upstreamCalls EXCEPT ![w] = @ + 1]
                          /\ pc' = [pc EXCEPT ![w] = "fetching"]
                          /\ UNCHANGED resp
            ELSE /\ resp' = [resp EXCEPT ![w] = SendError(404, "Not Found")]
                 /\ pc' = [pc EXCEPT ![w] = "done"]
                 /\ UNCHANGED <<query, started, upstreamCalls>>
    /\ UNCHANGED <<engine, fs, clock, upstream, call, snip>>

\* A faulty variant: a failed lookup is tried once more.
SearchReturnRetrying(w) ==
    /\ pc[w] = "fetching"
    /\ \E outcome \in ServerOutcomes :
         LET ret == Search(query[w], outcome, started[w], clock)
         IN  /\ upstream' = [upstream EXCEPT ![w] = outcome]
             /\ IF WikipediaResults(query[w], outcome).raised /\ upstreamCalls[w] < 2
                THEN /\ upstreamCalls' = [upstreamCalls EXCEPT ![w] = @ + 1]
                     /\ UNCHANGED <<resp, pc>>
                ELSE /\ resp' = [resp EXCEPT ![w] =
                                    IF ret.raised THEN NoResponse ELSE SendJson(ret.value, 200)]
                     /\ pc' = [pc EXCEPT ![w] = "done"]
                     /\ UNCHANGED upstreamCalls
    /\ UNCHANGED <<engine, fs, clock, req, query, started, call, snip>>

\* A faulty variant: the query is kept on the shared engine, where the
\* thread that called search last overwrites it.
SearchReturnSharedQuery(w) ==
    /\ pc[w] = "fetching"
    /\ \E outcome \in ServerOutcomes :
         LET last == CHOOSE v \in Workers : pc[v] = "fetching" /\ \A u \in Workers : pc[u] = "fetching" => u <= v
             ret == Search(query[last], outcome, started[w], clock)
         IN  /\ upstream' = [upstream EXCEPT ![w] = outcome]
             /\ resp' = [resp EXCEPT ![w] =
                            IF ret.raised THEN NoResponse ELSE SendJson(ret.value, 200)]
    /\ pc' = [pc EXCEPT ![w] = "done"]
    /\ started' = [started EXCEPT ![w] = 0]
    /\ UNCHANGED <<engine, fs, clock, req, query, upstreamCalls, call, snip>>

\* The rest of do_GET for a search: urlopen returns or raises, search
\* builds its dict and returns (its local started is gone), and _send_json
\* writes the dict.
SearchReturn(w) ==
    /\ pc[w] = "fetching"
    /\ \E outcome \in ServerOutcomes :
         LET ret == Search(query[w], outcome, started[w], clock)
         IN  /\ upstream' = [upstream EXCEPT ![w] = outcome]
             /\ resp' = [resp EXCEPT ![w] =
                            IF ret.raised THEN NoResponse ELSE SendJson(ret.value, 200)]
    /\ pc' = [pc EXCEPT ![w] = "done"]
    /\ started' = [started EXCEPT ![w] = 0]
    /\ UNCHANGED <<engine, fs, clock, req, query, upstreamCalls, call, snip>>

\* The request is finished; its thread ends and takes its locals with it.
Close(w) ==
    /\ pc[w] = "done"
    /\ pc' = [pc EXCEPT ![w] = "idle"]
    /\ req' = [req EXCEPT ![w] = NoRequest]
    /\ query' = [query EXCEPT ![w] = <<>>]
    /\ started' = [started EXCEPT ![w] = 0]
    /\ upstreamCalls' = [upstreamCalls EXCEPT ![w] = 0]
    /\ upstream' = [upstream EXCEPT ![w] = NoOutcome]
    /\ resp' = [resp EXCEPT ![w] = NoResponse]
    /\ UNCHANGED <<engine, fs, clock, call, snip>>

Next ==
    \/ Tick
    \/ \E w \in Workers : DoGET(w)
    \/ \E w \in Workers : SearchReturn(w)
    \/ \E w \in Workers : Close(w)

Spec == Init /\ [][Next]_vars

(***************************************************************************)
(* search as a function of its query, the upstream's answer and the clock. *)
(***************************************************************************)
InitSearch ==
    /\ ServerInit
    /\ fs = BaseFs
    /\ snip = SnipIdle
    /\ \E q \in Queries, outcome \in Outcomes, t \in 0..MaxClock :
         call = [pc |-> "called", query |-> q, outcome |-> outcome,
                 started |-> t, now |-> t, ret |-> Raise]

\* The counter advances while _get_json waits for the upstream.
CallWait ==
    /\ call.pc = "called"
    /\ call.now < MaxClock
    /\ call' = [call EXCEPT !.now = @ + 1]
    /\ UNCHANGED <<serverVars, snip>>

CallSearch ==
    /\ call.pc = "called"
    /\ call' = [call EXCEPT !.pc = "returned",
                            !.ret = Search(call.query, call.outcome, call.started, call.now)]
    /\ UNCHANGED <<serverVars, snip>>

NextSearch == CallWait \/ CallSearch

SpecSearch == InitSearch /\ [][NextSearch]_vars

(***************************************************************************)
(* The snippet clean-up of _wikipedia_results as a function of the raw     *)
(* snippet.                                                                *)
(***************************************************************************)
InitSnippet ==
    /\ ServerInit
    /\ fs = BaseFs
    /\ call = CallIdle
    /\ \E raw \in RawSnippets : snip = [pc |-> "raw", raw |-> raw, out |-> <<>>]

Normalize ==
    /\ snip.pc = "raw"
    /\ snip' = [snip EXCEPT !.pc = "done", !.out = NormalizeSnippet(snip.raw)]
    /\ UNCHANGED <<serverVars, call>>

NextSnippet == Normalize

SpecSnippet == InitSnippet /\ [][NextSnippet]_vars

(***************************************************************************)
(* Properties of search (checked under SpecSearch).                        *)
(***************************************************************************)
Returned == call.pc = "returned"

TranslatorFails == WikipediaResults(call.query, call.outcome).raised

IsFallbackEntry(r) == Head(r.url) \in {WikiSearchBase, DuckDuckGoBase}

IsLiveEntry(r) == Head(r.url) = WikiArticleBase

\* enc is q percent-encoded: only unreserved characters and escapes, and
\* decoding it gives q back.
IsPercentEncodingOf(enc, q) ==
    /\ \A i \in 1..Len(enc) : enc[i] \in AlwaysSafe \cup {"/", "%"}
    /\ Unquote(enc) = q

GoodRow(row) ==
    /\ row.k = "obj"
    /\ "title" \in DOMAIN row.fields =>
         row.fields["title"].k = "str" /\ ~QuoteRaises(row.fields["title"].s)
    /\ "snippet" \in DOMAIN row.fields => row.fields["snippet"].k = "str"

\* The payload has the API's shape as far as query.search, a list.
HasSearchList(outcome) ==
    /\ outcome.kind = "json"
    /\ outcome.payload.k = "obj"
    /\ "query" \in DOMAIN outcome.payload.fields
    /\ outcome.payload.fields["query"].k = "obj"
    /\ "search" \in DOMAIN outcome.payload.fields["query"].fields
    /\ outcome.payload.fields["query"].fields["search"].k = "list"

\* The payload has the API's shape, but no query or no search field.
LacksSearchList(outcome) ==
    /\ outcome.kind = "json"
    /\ outcome.payload.k = "obj"
    /\ \/ "query" \notin DOMAIN outcome.payload.fields
       \/ /\ outcome.payload.fields["query"].k = "obj"
          /\ "search" \notin DOMAIN outcome.payload.fields["query"].fields

\* The records at query.search.
Records(outcome) ==
    IF HasSearchList(outcome) THEN outcome.payload.fields["query"].fields["search"].items
    ELSE <<>>

WellFormed(outcome) ==
    \/ LacksSearchList(outcome)
    \/ HasSearchList(outcome) /\ \A i \in 1..Len(Records(outcome)) : GoodRow(Records(outcome)[i])

TitleOfRecord(row) ==
    IF "title" \in DOMAIN row.fields THEN row.fields["title"].s ELSE Untitled

\* C1: search is total: for every non-empty query do_GET can pass and every
\* outcome of the upstream call, it returns (never raises) a dict with
\* exactly the fields query, engine, elapsed_ms and results, and every
\* entry of results has exactly the fields title, snippet and url.
C1_SearchTotal ==
    Returned =>
        /\ ~call.ret.raised
        /\ DOMAIN call.ret.value = {"query", "engine", "elapsed_ms", "results"}
        /\ call.ret.value.query = call.query
        /\ call.ret.value.engine = "Happysearch"
        /\ call.ret.value.elapsed_ms \in Int
        /\ \A i \in 1..Len(call.ret.value.results) :
             DOMAIN call.ret.value.results[i] = {"title", "snippet", "url"}

\* A wrongly shaped body (valid JSON that is no dict) was answered.
C1_Witness ==
    /\ Returned
    /\ call.outcome.kind = "json"
    /\ call.outcome.payload.k # "obj"
    /\ ~call.ret.raised
    /\ Len(call.ret.value.results) = 2

\* C2: whenever the translator fails, results is exactly two entries in a
\* fixed order: the Wikipedia search link titled "Search Wikipedia for:
\* {query}", then the DuckDuckGo link titled "Search DuckDuckGo for:
\* {query}", each URL ending in the percent-encoded query.
C2_FallbackFixed ==
    (Returned /\ TranslatorFails) =>
        LET results == call.ret.value.results
        IN  /\ Len(results) = 2
            /\ results[1].title = <<"Search Wikipedia for: ">> \o call.query
            /\ results[2].title = <<"Search DuckDuckGo for: ">> \o call.query
            /\ Head(results[1].url) = WikiSearchBase
            /\ Head(results[2].url) = DuckDuckGoBase
            /\ IsPercentEncodingOf(Tail(results[1].url), call.query)
            /\ IsPercentEncodingOf(Tail(results[2].url), call.query)

\* The translator failed for a query that needs encoding.
C2_Witness ==
    /\ Returned
    /\ TranslatorFails
    /\ \E i \in 1..Len(call.query) : call.query[i] \notin AlwaysSafe
    /\ Len(call.ret.value.results) = 2

\* C4: for a well-formed payload, results has exactly one entry per record
\* at query.search, in the order of the records; with no query field, no
\* search field or an empty list there, results is empty and no fallback
\* entry is used.
C4_LiveOrder ==
    (Returned /\ WellFormed(call.outcome)) =>
        LET results == call.ret.value.results
            records == Records(call.outcome)
        IN  /\ Len(results) = Len(records)
            /\ \A i \in 1..Len(records) :
                 /\ results[i].title = TitleOfRecord(records[i])
                 /\ IsLiveEntry(results[i])
            /\ records = <<>> => results = <<>>

\* Two records with different titles were converted.
C4_Witness ==
    /\ Returned
    /\ WellFormed(call.outcome)
    /\ Len(Records(call.outcome)) = 2
    /\ TitleOfRecord(Records(call.outcome)[1]) # TitleOfRecord(Records(call.outcome)[2])
    /\ Len(call.ret.value.results) = 2

\* C5 as stated: every response has elapsed_ms >= 0 and non-empty results.
C5_Original ==
    Returned =>
        /\ call.ret.value.elapsed_ms >= 0
        /\ call.ret.value.results # <<>>

\* C5 (amended): every response has elapsed_ms >= 0; results is non-empty
\* whenever the live lookup fails, and is empty only when the upstream
\* answered with JSON and the live lookup converted no record.
C5_ElapsedAndFallbackNonEmpty ==
    Returned =>
        /\ call.ret.value.elapsed_ms >= 0
        /\ TranslatorFails => call.ret.value.results # <<>>
        /\ call.ret.value.results = <<>> =>
             call.outcome.kind = "json" /\ Records(call.outcome) = <<>>

\* A live lookup with no record returned after the clock had advanced.
C5_Witness ==
    /\ Returned
    /\ call.now > call.started
    /\ ~TranslatorFails
    /\ call.ret.value.results = <<>>

\* C10: results is all-or-nothing: either only live entries or exactly the
\* two fallback entries; when any record at query.search cannot be
\* converted, the records converted before it are discarded and results
\* is the two fallback entries.
C10_AllOrNothing ==
    Returned =>
        LET results == call.ret.value.results
        IN  /\ \/ \A i \in 1..Len(results) : IsLiveEntry(results[i])
               \/ Len(results) = 2 /\ \A i \in 1..2 : IsFallbackEntry(results[i])
            /\ (HasSearchList(call.outcome)
                /\ \E i \in 1..Len(Records(call.outcome)) : ~GoodRow(Records(call.outcome)[i]))
               => (Len(results) = 2 /\ \A i \in 1..2 : IsFallbackEntry(results[i]))

\* A good record followed by one that cannot be converted.
C10_Witness ==
    /\ Returned
    /\ HasSearchList(call.outcome)
    /\ Len(Records(call.outcome)) = 2
    /\ GoodRow(Records(call.outcome)[1])
    /\ ~GoodRow(Records(call.outcome)[2])
    /\ IsFallbackEntry(call.ret.value.results[1])

(***************************************************************************)
(* Properties of the snippet clean-up (checked under SpecSnippet).         *)
(***************************************************************************)
MarkerAt(s, i) ==
    IF StartsWith(Drop(s, i - 1), OPEN_MARK) THEN Len(OPEN_MARK)
    ELSE IF StartsWith(Drop(s, i - 1), CLOSE_MARK) THEN Len(CLOSE_MARK)
    ELSE 0

\* Every "<" of s begins a whole marker: plain text between whole markers,
\* as the upstream's highlighter writes it.
MarkersWhole(s) == \A i \in 1..Len(s) : s[i] = "<" => MarkerAt(s, i) > 0

InsideMarker(s, j) == \E i \in 1..j : j < i + MarkerAt(s, i)

RECURSIVE TextFrom(_, _)
TextFrom(s, j) ==
    IF j > Len(s) THEN <<>>
    ELSE (IF InsideMarker(s, j) THEN <<>> ELSE <<s[j]>>) \o TextFrom(s, j + 1)

\* s without the characters of its markers.
TextOutsideMarkers(s) == TextFrom(s, 1)

RECURSIVE IsSubsequence(_, _)
IsSubsequence(a, b) ==
    IF a = <<>> THEN TRUE
    ELSE IF b = <<>> THEN FALSE
    ELSE IF Head(a) = Head(b) THEN IsSubsequence(Tail(a), Tail(b))
    ELSE IsSubsequence(a, Tail(b))

\* C9 as stated: in the normalized snippet no occurrence of either marker
\* literal remains, and nothing else of the raw snippet is changed.
C9_Original ==
    snip.pc = "done" =>
        /\ ~Contains(snip.out, OPEN_MARK)
        /\ ~Contains(snip.out, CLOSE_MARK)
        /\ IsSubsequence(snip.out, snip.raw)

\* C9 (amended): the normalized snippet is the raw one with characters
\* deleted and none changed; a raw snippet holding neither literal is
\* returned as it is; and when every "<" of the raw snippet begins a whole
\* marker literal, the normalized snippet is the text outside the markers
\* and no occurrence of either literal remains in it.
C9_SnippetNormalized ==
    snip.pc = "done" =>
        /\ IsSubsequence(snip.out, snip.raw)
        /\ (~Contains(snip.raw, OPEN_MARK) /\ ~Contains(snip.raw, CLOSE_MARK)) => snip.out = snip.raw
        /\ MarkersWhole(snip.raw) =>
             /\ snip.out = TextOutsideMarkers(snip.raw)
             /\ ~Contains(snip.out, OPEN_MARK)
             /\ ~Contains(snip.out, CLOSE_MARK)

\* Text between an opening and a closing marker was cleaned.
C9_Witness ==
    /\ snip.pc = "done"
    /\ MarkersWhole(snip.raw)
    /\ Contains(snip.raw, OPEN_MARK)
    /\ Contains(snip.raw, CLOSE_MARK)
    /\ snip.out # <<>>

(***************************************************************************)
(* Properties of the server (checked under Spec).                          *)
(***************************************************************************)
IsApiSearch(w) == pc[w] # "idle" /\ req[w].path = ApiSearchPath

\* The q parameter is missing, or holds nothing but whitespace.
BlankQuery(request) ==
    LET raw == RawQuery(request)
    IN  \A i \in 1..Len(raw) : raw[i] \in Whitespace

Answered(w) == pc[w] = "done" /\ upstream[w] # NoOutcome

\* The upstream call raised, or its payload has not the API's shape.
LiveLookupFailed(outcome) == outcome.kind = "raise" \/ ~WellFormed(outcome)

TwoFallbackEntries(results) ==
    Len(results) = 2 /\ \A i \in 1..2 : IsFallbackEntry(results[i])

\* C3: a GET /api/search whose q is missing or blank after trimming is
\* answered 400 with {"error": "Query parameter 'q' is required."} and
\* search is not invoked (no upstream call is made); any other is answered
\* 200 with the search response. search only ever runs on a trimmed,
\* non-empty query.
C3_QueryValidated ==
    \A w \in Workers :
        /\ (pc[w] = "done" /\ IsApiSearch(w)) =>
             IF BlankQuery(req[w])
             THEN /\ resp[w].status = 400
                  /\ resp[w].body = ErrorBody
                  /\ upstreamCalls[w] = 0
                  /\ upstream[w] = NoOutcome
             ELSE /\ resp[w].status = 200
                  /\ upstreamCalls[w] = 1
                  /\ DOMAIN resp[w].body = {"query", "engine", "elapsed_ms", "results"}
        /\ pc[w] = "fetching" =>
             /\ query[w] # <<>>
             /\ Head(query[w]) \notin Whitespace
             /\ query[w][Len(query[w])] \notin Whitespace

\* A q of whitespace only was rejected.
C3_Witness ==
    \E w \in Workers :
        /\ pc[w] = "done"
        /\ IsApiSearch(w)
        /\ RawQuery(req[w]) # <<>>
        /\ BlankQuery(req[w])
        /\ resp[w].status = 400

\* C6: one invocation of search issues the upstream request at most once;
\* after a translator failure nothing more is requested and the response
\* carries the two static fallback entries.
C6_NoRetry ==
    \A w \in Workers :
        /\ upstreamCalls[w] <= 1
        /\ pc[w] = "fetching" => upstream[w] = NoOutcome
        /\ (Answered(w) /\ LiveLookupFailed(upstream[w])) =>
             /\ upstreamCalls[w] = 1
             /\ resp[w].status = 200
             /\ TwoFallbackEntries(resp[w].body.results)

\* A search whose upstream call timed out was answered.
C6_Witness ==
    \E w \in Workers :
        /\ Answered(w)
        /\ upstream[w] = [kind |-> "raise", error |-> "timeout"]
        /\ upstreamCalls[w] = 1
        /\ TwoFallbackEntries(resp[w].body.results)

\* C7: requests on separate threads are isolated: a response carries the
\* query of its own request, and its results are the fallback exactly when
\* its own upstream call failed and otherwise one entry per record of its
\* own payload; a thread waiting for the upstream can always go on,
\* whatever the other threads do; the engine's timeout is never changed.
C7_Isolation ==
    /\ engine = [timeout_seconds |-> DefaultTimeoutSeconds]
    /\ \A w \in Workers :
         /\ pc[w] = "fetching" => ENABLED SearchReturn(w)
         /\ Answered(w) =>
              LET own == StrStrip(RawQuery(req[w]))
                  results == resp[w].body.results
              IN  /\ resp[w].body.query = own
                  /\ IF LiveLookupFailed(upstream[w])
                     THEN /\ TwoFallbackEntries(results)
                          /\ results[1].title = <<"Search Wikipedia for: ">> \o own
                     ELSE /\ Len(results) = Len(Records(upstream[w]))
                          /\ \A i \in 1..Len(results) : IsLiveEntry(results[i])

\* Two requests with different queries were answered, one from the
\* fallback and one live.
C7_Witness ==
    \E v, w \in Workers :
        /\ Answered(v)
        /\ Answered(w)
        /\ query[v] # query[w]
        /\ upstream[v].kind = "raise"
        /\ Len(Records(upstream[w])) = 2
        /\ Len(resp[w].body.results) = 2
        /\ TwoFallbackEntries(resp[v].body.results)

\* Where index.html leads: itself, or the target of the link it is.
IndexTarget ==
    IF IndexFile \in DOMAIN fs /\ fs[IndexFile].kind = "link" THEN fs[IndexFile].target
    ELSE IndexFile

OutsideRoot(p) == Len(p) < Len(WEB_DIR) \/ SubSeq(p, 1, Len(WEB_DIR)) # WEB_DIR

\* The request's path, taken as a file below the asset root, leaves it.
EscapesRoot(path) == OutsideRoot(Resolve(WEB_DIR \o path, fs))

IsStatic(w) == pc[w] = "done" /\ req[w].path # ApiSearchPath

\* C8 as stated: a GET whose path escapes the asset root is answered 403,
\* and one for a missing file or a directory 404.
C8_Original ==
    \A w \in Workers :
        IsStatic(w) =>
            /\ EscapesRoot(req[w].path) => resp[w].status = 403
            /\ (~EscapesRoot(req[w].path)
                /\ (Resolve(WEB_DIR \o req[w].path, fs) \notin DOMAIN fs
                    \/ fs[Resolve(WEB_DIR \o req[w].path, fs)].kind = "dir"))
               => resp[w].status = 404

\* C8 (amended): do_GET serves no file but index.html.  A GET of / or
\* /index.html is answered 403 exactly when index.html resolves outside
\* the asset root, 404 when it resolves inside and is missing or a
\* directory, and 200 otherwise; every other path that is not /api/search,
\* one that escapes the root included, is answered 404.
C8_StaticContained ==
    \A w \in Workers :
        IsStatic(w) =>
            IF req[w].path \in IndexPaths
            THEN /\ resp[w].status = 403 <=> OutsideRoot(IndexTarget)
                 /\ resp[w].status = 404 <=>
                      (~OutsideRoot(IndexTarget)
                       /\ (IndexTarget \notin DOMAIN fs \/ fs[IndexTarget].kind = "dir"))
                 /\ resp[w].status \in {200, 403, 404}
                 /\ resp[w].status = 200 => resp[w].body = fs[IndexTarget].data
            ELSE resp[w].status = 404

\* index.html is a link out of the asset root and the request was refused.
C8_Witness ==
    \E w \in Workers :
        /\ IsStatic(w)
        /\ req[w].path \in IndexPaths
        /\ OutsideRoot(IndexTarget)
        /\ resp[w].status = 403

====
